---- MODULE Spec2Model ----
(***************************************************************************)
(* Linearizability verifier for a key-value store: the KV state-machine    *)
(* model (Step and its handlers), the history loader and merger, and the   *)
(* orchestration around the checking engine.                               *)
(***************************************************************************)
EXTENDS Integers, Sequences, FiniteSets, TLC

VARIABLES
    heap,    \* Go heap: map reference -> contents of a map[string]string
    last,    \* the last call of model.Step: its arguments and results
    files,   \* the file system: path -> content of a trace file
    pc,      \* position of the program
    ops,     \* the []Operation that loadHistory returned
    eng,     \* the checking engine's search state
    result,  \* the HistoryResult of ProcessHistory
    merged,  \* the merged-history artifact of each MergeHistories call
    historyPath,  \* the path ProcessHistory is given
    console, \* the lines printed to stdout and stderr, in order
    render,  \* what became of the visualization file
    proc     \* the process: its arguments and its exit code

vars == <<heap, last, files, pc, ops, eng, result, merged, historyPath,
          console, render, proc>>

(***************************************************************************)
(* JSON values as Go holds them in a map[string]interface{}.               *)
(* t = "missing": the key is not in the map (indexing yields nil);         *)
(* t = "null": JSON null (nil); "string": a Go string; "number": float64.  *)
(***************************************************************************)
Missing == [t |-> "missing", s |-> ""]
Null == [t |-> "null", s |-> ""]
Str(x) == [t |-> "string", s |-> x]
Num(x) == [t |-> "number", s |-> x]

\* v.(string): the comma-ok type assertion
IsString(v) == v.t = "string"
\* v == nil for an interface{} read from a map
IsNil(v) == v.t \in {"missing", "null"}

Keys == {"x", "y"}
Vals == {"", "1"}

\* make(map[string]string)
EmptyMap == [k \in {} |-> ""]

\* st[key] = value on a Go map
MapSet(m, key, value) ==
    [k \in (DOMAIN m) \cup {key} |-> IF k = key THEN value ELSE m[k]]

\* delete(st, key) on a Go map
MapDelete(m, key) == [k \in (DOMAIN m) \ {key} |-> m[k]]

(***************************************************************************)
(* The handlers. A state is a reference into the heap; each handler        *)
(* returns legal, the returned state reference and the heap after the call.*)
(***************************************************************************)
Ret(legal, st, h) == [legal |-> legal, state |-> st, heap |-> h]

\* handlePut that writes only a key that is not bound yet
handlePutNoOverwrite(h, st, in) ==
    IF ~IsString(in.key) \/ ~IsString(in.value)
    THEN Ret(FALSE, st, h)
    ELSE IF in.key.s \in DOMAIN h[st] THEN Ret(TRUE, st, h)
    ELSE Ret(TRUE, st, [h EXCEPT ![st] = MapSet(h[st], in.key.s, in.value.s)])

handlePut(h, st, in) ==
    IF ~IsString(in.key) \/ ~IsString(in.value)
    THEN Ret(FALSE, st, h)
    ELSE Ret(TRUE, st, [h EXCEPT ![st] = MapSet(h[st], in.key.s, in.value.s)])

\* handleGet that compares with the zero value st[key] yields for an absent key
handleGetZeroValue(h, st, in, out) ==
    IF ~IsString(in.key) THEN Ret(FALSE, st, h)
    ELSE LET key == in.key.s
             expectedValue == IF key \in DOMAIN h[st] THEN h[st][key] ELSE ""
         IN  IF ~IsString(out.status) \/ out.status.s # "ok"
             THEN Ret(FALSE, st, h)
             ELSE Ret(IsString(out.value) /\ out.value.s = expectedValue, st, h)

handleGet(h, st, in, out) ==
    IF ~IsString(in.key) THEN Ret(FALSE, st, h)
    ELSE LET key == in.key.s
             exists == key \in DOMAIN h[st]
         IN  IF ~IsString(out.status) \/ out.status.s # "ok"
             THEN Ret(FALSE, st, h)
             ELSE IF ~exists THEN Ret(IsNil(out.value), st, h)
             ELSE IF IsNil(out.value) THEN Ret(FALSE, st, h)
             ELSE Ret(IsString(out.value) /\ out.value.s = h[st][key], st, h)

\* handleDelete that rejects the removal of an absent key
handleDeleteStrict(h, st, in) ==
    IF ~IsString(in.key) \/ in.key.s \notin DOMAIN h[st]
    THEN Ret(FALSE, st, h)
    ELSE Ret(TRUE, st, [h EXCEPT ![st] = MapDelete(h[st], in.key.s)])

handleDelete(h, st, in) ==
    IF ~IsString(in.key)
    THEN Ret(FALSE, st, h)
    ELSE Ret(TRUE, st, [h EXCEPT ![st] = MapDelete(h[st], in.key.s)])

\* Step whose default case accepts the operation
StepDefaultLegal(h, st, in, out) ==
    IF ~IsString(in.type) THEN Ret(FALSE, st, h)
    ELSE CASE in.type.s = "Put" -> handlePut(h, st, in)
           [] in.type.s = "Get" -> handleGet(h, st, in, out)
           [] in.type.s = "Delete" -> handleDelete(h, st, in)
           [] OTHER -> Ret(TRUE, st, h)

Step(h, st, in, out) ==
    IF ~IsString(in.type) THEN Ret(FALSE, st, h)
    ELSE CASE in.type.s = "Put" -> handlePut(h, st, in)
           [] in.type.s = "Get" -> handleGet(h, st, in, out)
           [] in.type.s = "Delete" -> handleDelete(h, st, in)
           [] OTHER -> Ret(FALSE, st, h)

(***************************************************************************)
(* Inputs and outputs the model is stepped with.                           *)
(***************************************************************************)
TypeVals == {Missing, Num("7"), Str("Put"), Str("Get"), Str("Delete"), Str("Scan")}
KeyVals == {Missing, Num("7")} \cup {Str(k) : k \in Keys}
ValueVals == {Missing, Num("7")} \cup {Str(v) : v \in Vals}
StatusVals == {Missing, Num("7"), Str("ok"), Str("error")}
OutValueVals == {Missing, Null, Num("7")} \cup {Str(v) : v \in Vals}

Inputs == [type : TypeVals, key : KeyVals, value : ValueVals]
Outputs == [status : StatusVals, value : OutValueVals]

\* no process: the function under study is called on its own
NoProc == [args |-> <<>>, serve |-> FALSE, exitCode |-> -1]

NoCall ==
    [called |-> FALSE, in |-> [type |-> Missing, key |-> Missing, value |-> Missing],
     out |-> [status |-> Missing, value |-> Missing], arg |-> 0, before |-> EmptyMap,
     legal |-> FALSE, ret |-> 0]

\* What a call of model.Step leaves behind for inspection.
CallRecord(h, st, in, out, r) ==
    [called |-> TRUE, in |-> in, out |-> out, arg |-> st, before |-> h[st],
     legal |-> r.legal, ret |-> r.state]

(***************************************************************************)
(* Trace files and loadHistory.                                            *)
(* A file is unreadable, is not JSON, or is a JSON array of objects.       *)
(* Each member of an object is a JSON value: an integer [t |-> "int"], a   *)
(* string, null, an object [t |-> "object"] or missing.                    *)
(***************************************************************************)
NilMap == [type |-> Missing, key |-> Missing, value |-> Missing]
NilOut == [status |-> Missing, value |-> Missing]

JInt(n) == [t |-> "int", n |-> n]
JBadInt == [t |-> "string", n |-> 0]
JNoInt == [t |-> "missing", n |-> 0]
JObj(m) == [t |-> "object", m |-> m]
JNotObj(m) == [t |-> "number", m |-> m]
JNoObj(m) == [t |-> "missing", m |-> m]

Unreadable == [kind |-> "unreadable", recs |-> <<>>]
BadJSON == [kind |-> "badjson", recs |-> <<>>]
JSONArray(recs) == [kind |-> "array", recs |-> recs]

\* json.Unmarshal into an int64 field: a JSON integer decodes, a missing
\* member or null leaves the zero value, anything else is an error.
IntFieldOk(v) == v.t \in {"int", "missing", "null"}
IntField(v) == IF v.t = "int" THEN v.n ELSE 0

\* json.Unmarshal into a map[string]interface{} field: an object decodes
\* whatever its members are, a missing member or null leaves the nil map.
MapFieldOk(v) == v.t \in {"object", "missing", "null"}
MapField(v, nil) == IF v.t = "object" THEN v.m ELSE nil

RecordOk(r) ==
    /\ IntFieldOk(r.client_id)
    /\ IntFieldOk(r.call)
    /\ IntFieldOk(r.return_time)
    /\ MapFieldOk(r.input)
    /\ MapFieldOk(r.output)

\* type Operation
DecodeRecord(r) ==
    [ClientID |-> IntField(r.client_id),
     Input |-> MapField(r.input, NilMap),
     Call |-> IntField(r.call),
     Output |-> MapField(r.output, NilOut),
     ReturnTime |-> IntField(r.return_time)]

LoadResult(err, o) == [err |-> err, ops |-> o]

loadHistory(content) ==
    IF content.kind = "unreadable" THEN LoadResult("error reading file", <<>>)
    ELSE IF content.kind = "badjson" THEN LoadResult("error parsing JSON", <<>>)
    ELSE IF \E i \in 1..Len(content.recs) : ~RecordOk(content.recs[i])
    THEN LoadResult("error parsing JSON", <<>>)
    ELSE LoadResult("", [i \in 1..Len(content.recs) |-> DecodeRecord(content.recs[i])])

\* porcupine.Operation, field by field
convertToPorcupineOperations(o) ==
    [i \in 1..Len(o) |->
        [ClientId |-> o[i].ClientID, Input |-> o[i].Input, Call |-> o[i].Call,
         Output |-> o[i].Output, Return |-> o[i].ReturnTime]]

(***************************************************************************)
(* partitionByKey: the operations grouped by key, the groups in the order  *)
(* a range over a Go map yields them, which is any order.                  *)
(***************************************************************************)
UnknownKey == "__unknown__"

\* a grouping by the kind of operation instead of its key
BucketKeyByType(op) == IF IsString(op.Input.type) THEN op.Input.type.s ELSE UnknownKey

BucketKey(op) == IF IsString(op.Input.key) THEN op.Input.key.s ELSE UnknownKey

\* the members of a set of indices in ascending order
Ascending(S) ==
    [j \in 1..Cardinality(S) |->
        CHOOSE i \in S : Cardinality({i2 \in S : i2 < i}) = j - 1]

\* a grouping that skips the operations whose key is not a string
BucketOfStringKeys(history, key) ==
    Ascending({i \in 1..Len(history) :
                  IsString(history[i].Input.key) /\ BucketKey(history[i]) = key})

\* partitions[key]: the indices appended under a key, in history order
Bucket(history, key) ==
    Ascending({i \in 1..Len(history) : BucketKey(history[i]) = key})

BucketKeys(history) == {BucketKey(history[i]) : i \in 1..Len(history)}

Orderings(S) ==
    {f \in [1..Cardinality(S) -> S] : \A i, j \in 1..Cardinality(S) : f[i] = f[j] => i = j}

\* every result the function can return, each partition as indices into history
partitionIndices(history) ==
    {[p \in 1..Len(order) |-> Bucket(history, order[p])] :
        order \in Orderings(BucketKeys(history))}

partitionByKey(history) ==
    {[p \in 1..Len(ix) |-> [j \in 1..Len(ix[p]) |-> history[ix[p][j]]]] :
        ix \in partitionIndices(history)}

(***************************************************************************)
(* The checking engine (porcupine.CheckOperationsVerbose), per partition:  *)
(* the call and return entries of a partition in time order, calls before  *)
(* returns at equal times; a depth-first search that steps the model on    *)
(* the first call entry still listed, saves the state it stepped from,     *)
(* and on reaching a return entry restores the saved state and retries     *)
(* with the next entry.                                                    *)
(***************************************************************************)
CallKind == "call"
ReturnKind == "return"

Entries(part) ==
    {[time |-> part[i].Call, kind |-> CallKind, id |-> i] : i \in 1..Len(part)}
    \cup {[time |-> part[i].Return, kind |-> ReturnKind, id |-> i] : i \in 1..Len(part)}

EntryLess(e, f) ==
    \/ e.time < f.time
    \/ e.time = f.time /\ e.kind = CallKind /\ f.kind = ReturnKind
    \/ e.time = f.time /\ e.kind = f.kind /\ e.id < f.id

makeEntries(part) ==
    [p \in 1..(2 * Len(part)) |->
        CHOOSE e \in Entries(part) :
            Cardinality({f \in Entries(part) : EntryLess(f, e)}) = p - 1]

\* the first entry after position p whose operation is not linearized; 0 for nil
NextEntry(entries, lin, p) ==
    LET live == {q \in (p + 1)..Len(entries) : entries[q].id \notin lin}
    IN  IF live = {} THEN 0 ELSE CHOOSE q \in live : \A q2 \in live : q <= q2

\* the position of the call entry of operation id
CallEntryOf(entries, id) ==
    CHOOSE q \in 1..Len(entries) : entries[q].id = id /\ entries[q].kind = CallKind

NoEngine ==
    [parts |-> <<>>, pidx |-> 0, state |-> 0, lin |-> {}, cur |-> 0,
     calls |-> <<>>, ok |-> TRUE, longest |-> <<>>, timedOut |-> FALSE]

\* the search of partition p starts: model.Init() allocates its state
StartPartition(e, h, p) ==
    [e EXCEPT !.pidx = p, !.state = Len(h) + 1, !.lin = {},
              !.cur = IF p <= Len(e.parts) /\ Len(e.parts[p]) > 0 THEN 1 ELSE 0,
              !.calls = <<>>]

(***************************************************************************)
(* ProcessHistory: load, the early returns, the engine's search partition  *)
(* by partition, and the HistoryResult. The engine checks the partitions   *)
(* in goroutines that share nothing (each calls model.Init() for its own   *)
(* state), modelled one after the other.                                   *)
(***************************************************************************)
NoResult ==
    [Path |-> "", HTMLPath |-> "", IsLinearizable |-> FALSE, TotalOps |-> 0,
     MaxPartialLen |-> 0, Result |-> "none"]

HistoryResult(path, html, lin, total, maxPartial, res) ==
    [Path |-> path, HTMLPath |-> html, IsLinearizable |-> lin, TotalOps |-> total,
     MaxPartialLen |-> maxPartial, Result |-> res]

HTMLPathOf(path) == "history.html"

\* info.PartialLinearizations(): for every partition, the sequences kept
\* as the longest found for one of its operations
PartialLinearizations(e) ==
    [p \in 1..Len(e.parts) |->
        {e.longest[p][i] : i \in 1..Len(e.parts[p])} \ {<<>>}]

\* calculateMaxPartialLength with len(partition) taken for len(linearization)
calculateMaxPartialLengthOfPartitions(info) ==
    LET lens == {Cardinality(info[p]) : p \in 1..Len(info)} \ {0}
    IN  IF lens = {} THEN 0 ELSE CHOOSE n \in lens : \A n2 \in lens : n2 <= n

calculateMaxPartialLength(info) ==
    LET lens == UNION {{Len(l) : l \in info[p]} : p \in 1..Len(info)}
    IN  IF \A n \in lens : n <= 0 THEN 0
        ELSE CHOOSE n \in lens : \A n2 \in lens : n2 <= n

\* printResults
printResults(res, totalOps, maxPartialLength) ==
    IF res = "Ok"
    THEN <<"History is linearizable", "Total operations">>
         \o (IF maxPartialLength > 0 THEN <<"Max partial linearization length">> ELSE <<>>)
    ELSE <<"History is NOT linearizable", "Total operations">>
         \o (IF maxPartialLength > 0 THEN <<"Max partial linearization length">> ELSE <<>>)
         \o <<"Check result: " \o res>>

\* generateVisualization: what it prints for each fate of the file
RenderOutcomes == {"generated", "create failed", "render failed"}

generateVisualization(outcome) ==
    CASE outcome = "create failed" -> <<"Warning: Failed to create visualization file">>
      [] outcome = "render failed" -> <<"Warning: Failed to generate visualization">>
      [] OTHER -> <<"Generated visualization">>

\* the early return on a history without operations, as a failure
EmptyHistoryAsFailure(path) == HistoryResult(path, "", FALSE, 0, 0, "")

\* the early return on a history without operations
EmptyHistory(path) == HistoryResult(path, "", TRUE, 0, 0, "")

ProcessHistoryLoad ==
    /\ pc = "process"
    /\ LET r == loadHistory(files[historyPath])
       IN  IF r.err # ""
           THEN /\ result' = HistoryResult(historyPath, "", FALSE, 0, 0, "")
                /\ console' = console \o <<"Processing", "Error: " \o r.err>>
                /\ pc' = "done"
                /\ UNCHANGED <<ops, eng, heap>>
           ELSE IF Len(r.ops) = 0
           THEN /\ result' = EmptyHistory(historyPath)
                /\ console' = console \o <<"Processing", "No operations found in history">>
                /\ pc' = "done"
                /\ ops' = r.ops
                /\ UNCHANGED <<eng, heap>>
           ELSE /\ \E parts \in partitionByKey(convertToPorcupineOperations(r.ops)) :
                       eng' = StartPartition(
                                  [NoEngine EXCEPT
                                     !.parts = parts,
                                     !.longest = [p \in 1..Len(parts) |->
                                                    [i \in 1..Len(parts[p]) |-> <<>>]]],
                                  heap, 1)
                /\ heap' = Append(heap, EmptyMap)
                /\ ops' = r.ops
                /\ console' = Append(console, "Processing")
                /\ pc' = "check"
                /\ UNCHANGED result
    /\ UNCHANGED <<last, files, merged, historyPath, render, proc>>

CurPart == eng.parts[eng.pidx]
CurEntries == makeEntries(CurPart)

\* a partition's search has returned: the next one starts, or the engine returns
PartitionDone(e) ==
    IF e.pidx < Len(e.parts)
    THEN /\ eng' = StartPartition(e, heap, e.pidx + 1)
         /\ heap' = Append(heap, EmptyMap)
         /\ pc' = pc
    ELSE /\ eng' = e
         /\ heap' = heap
         /\ pc' = "report"

\* the entry is a call: step the model on it
EngineStep ==
    /\ pc = "check"
    /\ eng.cur # 0
    /\ CurEntries[eng.cur].kind = CallKind
    /\ LET id == CurEntries[eng.cur].id
           op == CurPart[id]
           r == Step(heap, eng.state, op.Input, op.Output)
       IN  /\ heap' = r.heap
           /\ last' = CallRecord(heap, eng.state, op.Input, op.Output, r)
           /\ eng' = IF r.legal
                     THEN [eng EXCEPT
                             !.calls = Append(@, [id |-> id, state |-> eng.state]),
                             !.state = r.state,
                             !.lin = @ \cup {id},
                             !.cur = NextEntry(CurEntries, eng.lin \cup {id}, 0)]
                     ELSE [eng EXCEPT !.cur = NextEntry(CurEntries, eng.lin, eng.cur)]
    /\ UNCHANGED <<files, pc, ops, result, merged, historyPath,
                   console, render, proc>>

\* the operations stepped so far, in the order they were stepped
CallIds(calls) == [k \in 1..Len(calls) |-> calls[k].id]

\* the sequence replaces what is kept for each of its operations when it is longer
KeepLongest(longest, seq) ==
    [i \in DOMAIN longest |->
        IF i \in {seq[k] : k \in 1..Len(seq)} /\ Len(seq) > Len(longest[i])
        THEN seq ELSE longest[i]]

\* the entry is a return and a call was stepped: undo the last one
EngineBacktrack ==
    /\ pc = "check"
    /\ eng.cur # 0
    /\ CurEntries[eng.cur].kind = ReturnKind
    /\ eng.calls # <<>>
    /\ LET top == eng.calls[Len(eng.calls)]
           lin == eng.lin \ {top.id}
       IN  eng' = [eng EXCEPT
                     !.longest[eng.pidx] = KeepLongest(@, CallIds(eng.calls)),
                     !.state = top.state,
                     !.lin = lin,
                     !.calls = SubSeq(@, 1, Len(@) - 1),
                     !.cur = NextEntry(CurEntries, lin, CallEntryOf(CurEntries, top.id))]
    /\ UNCHANGED <<heap, last, files, pc, ops, result, merged, historyPath,
                   console, render, proc>>

\* the entry is a return and nothing is left to undo: the partition is illegal
EngineFail ==
    /\ pc = "check"
    /\ eng.cur # 0
    /\ CurEntries[eng.cur].kind = ReturnKind
    /\ eng.calls = <<>>
    /\ PartitionDone([eng EXCEPT !.ok = FALSE])
    /\ UNCHANGED <<last, files, ops, result, merged, historyPath,
                   console, render, proc>>

\* no entry is left: every operation of the partition is linearized
EngineSucceed ==
    /\ pc = "check"
    /\ eng.cur = 0
    /\ PartitionDone([eng EXCEPT
                        !.longest[eng.pidx] =
                            [i \in DOMAIN @ |-> CallIds(eng.calls)]])
    /\ UNCHANGED <<last, files, ops, result, merged, historyPath,
                   console, render, proc>>

\* the 30 seconds are over before the search has returned
EngineTimeout ==
    /\ pc = "check"
    /\ eng' = [eng EXCEPT !.timedOut = TRUE]
    /\ pc' = "report"
    /\ UNCHANGED <<heap, last, files, ops, result, merged, historyPath,
                   console, render, proc>>

\* the CheckResult the engine returns
CheckResult(e) ==
    IF e.timedOut THEN "Unknown" ELSE IF e.ok THEN "Ok" ELSE "Illegal"

\* ProcessHistory after the engine: a failed rendering fails the whole result
ProcessHistoryReportStrict ==
    /\ pc = "report"
    /\ \E outcome \in RenderOutcomes :
        LET res == CheckResult(eng)
            maxPartialLength == calculateMaxPartialLength(PartialLinearizations(eng))
        IN  /\ render' = outcome
            /\ console' = console \o generateVisualization(outcome)
                                  \o printResults(res, Len(ops), maxPartialLength)
            /\ result' = IF outcome = "generated"
                         THEN HistoryResult(historyPath, HTMLPathOf(historyPath),
                                            res = "Ok", Len(ops), maxPartialLength, res)
                         ELSE HistoryResult(historyPath, "", FALSE, 0, 0, "")
    /\ pc' = "done"
    /\ UNCHANGED <<heap, last, files, ops, eng, merged, historyPath, proc>>

ProcessHistoryReport ==
    /\ pc = "report"
    /\ \E outcome \in RenderOutcomes :
        LET res == CheckResult(eng)
            maxPartialLength == calculateMaxPartialLength(PartialLinearizations(eng))
        IN  /\ render' = outcome
            /\ console' = console \o generateVisualization(outcome)
                                  \o printResults(res, Len(ops), maxPartialLength)
            /\ result' = HistoryResult(historyPath, HTMLPathOf(historyPath),
                                       res = "Ok", Len(ops), maxPartialLength, res)
    /\ pc' = "done"
    /\ UNCHANGED <<heap, last, files, ops, eng, merged, historyPath, proc>>

ProcessNext ==
    \/ ProcessHistoryLoad
    \/ EngineStep
    \/ EngineBacktrack
    \/ EngineFail
    \/ EngineSucceed
    \/ ProcessHistoryReport

(***************************************************************************)
(* Well-formed histories: Put, Get and Delete records with string keys     *)
(* and values and call <= return_time.                                     *)
(***************************************************************************)
MaxOps == 2
MaxTime == 2

OkOut(v) == JObj([status |-> Str("ok"), value |-> v])

WellFormedIO ==
    {[input |-> JObj([type |-> Str("Put"), key |-> Str(k), value |-> Str(v)]),
      output |-> OkOut(Missing)] : k \in Keys, v \in Vals}
    \cup {[input |-> JObj([type |-> Str("Get"), key |-> Str(k), value |-> Missing]),
           output |-> OkOut(v)] : k \in Keys, v \in {Null} \cup {Str(x) : x \in Vals}}
    \cup {[input |-> JObj([type |-> Str("Delete"), key |-> Str(k), value |-> Missing]),
           output |-> OkOut(Missing)] : k \in Keys}

WellFormedRecords ==
    {[client_id |-> JInt(1), input |-> io.input, call |-> JInt(c),
      output |-> io.output, return_time |-> JInt(r)] :
        io \in WellFormedIO, c \in 0..MaxTime, r \in 0..MaxTime} 

SeqsUpTo(S, n) == UNION {[1..k -> S] : k \in 0..n}

HistoryFile == "history.json"

CheckInit ==
    /\ heap = <<>>
    /\ last = NoCall
    /\ \E recs \in SeqsUpTo({r \in WellFormedRecords : r.call.n <= r.return_time.n}, MaxOps) :
           files = [p \in {HistoryFile} |-> JSONArray(recs)]
    /\ pc = "process"
    /\ ops = <<>>
    /\ eng = NoEngine
    /\ result = NoResult
    /\ merged = <<>>
    /\ console = <<>>
    /\ render = "none"
    /\ proc = NoProc
    /\ historyPath = HistoryFile

SpecCheck == CheckInit /\ [][ProcessNext]_vars

(***************************************************************************)
(* Linearizability of a history under the store's sequential semantics.    *)
(***************************************************************************)
SeqLegal(m, op) ==
    IF op.Input.type.s = "Get"
    THEN /\ IsString(op.Output.status) /\ op.Output.status.s = "ok"
         /\ IF op.Input.key.s \in DOMAIN m
            THEN IsString(op.Output.value) /\ op.Output.value.s = m[op.Input.key.s]
            ELSE IsNil(op.Output.value)
    ELSE TRUE

SeqNext(m, op) ==
    CASE op.Input.type.s = "Put" -> MapSet(m, op.Input.key.s, op.Input.value.s)
      [] op.Input.type.s = "Delete" -> MapDelete(m, op.Input.key.s)
      [] OTHER -> m

RECURSIVE LegalFrom(_, _, _, _)
LegalFrom(h, order, k, m) ==
    IF k > Len(order) THEN TRUE
    ELSE /\ SeqLegal(m, h[order[k]])
         /\ LegalFrom(h, order, k + 1, SeqNext(m, h[order[k]]))

RespectsRealTime(h, order) ==
    \A i, j \in 1..Len(order) :
        h[order[i]].ReturnTime < h[order[j]].Call => i < j

Linearizable(h) ==
    \E order \in Orderings(1..Len(h)) :
        RespectsRealTime(h, order) /\ LegalFrom(h, order, 1, EmptyMap)

\* C1: once ProcessHistory has returned, its verdict is "linearizable"
\* exactly when the loaded history has a total order that respects real-time
\* precedence and is legal under the sequential Put/Get/Delete semantics.
C1_VerdictIffLinearizable ==
    pc = "done" => (result.IsLinearizable <=> Linearizable(ops))

(***************************************************************************)
(* The model on its own: Init, then calls of Step with any input and       *)
(* output. As in the engine, the search adopts the state a legal step      *)
(* returned and keeps the state it held after an illegal one.              *)
(***************************************************************************)
StepInit ==
    /\ heap = <<EmptyMap>>
    /\ last = NoCall
    /\ files = <<>>
    /\ pc = "step"
    /\ ops = <<>>
    /\ eng = [NoEngine EXCEPT !.state = 1]
    /\ result = NoResult
    /\ merged = <<>>
    /\ console = <<>>
    /\ render = "none"
    /\ proc = NoProc
    /\ historyPath = ""

\* ok, newState := model.Step(state, input, output)
StepCall ==
    /\ pc = "step"
    /\ \E in \in Inputs, out \in Outputs :
        LET r == Step(heap, eng.state, in, out)
        IN  /\ heap' = r.heap
            /\ last' = CallRecord(heap, eng.state, in, out, r)
    /\ pc' = "stepped"
    /\ UNCHANGED <<files, ops, eng, result, merged, historyPath,
                   console, render, proc>>

\* the step was legal: state = newState
StepAdopt ==
    /\ pc = "stepped"
    /\ last.legal
    /\ eng' = [eng EXCEPT !.state = last.ret]
    /\ last' = NoCall
    /\ pc' = "step"
    /\ UNCHANGED <<heap, files, ops, result, merged, historyPath,
                   console, render, proc>>

\* the step was illegal: the search goes on with the state it holds
StepDiscard ==
    /\ pc = "stepped"
    /\ ~last.legal
    /\ last' = NoCall
    /\ pc' = "step"
    /\ UNCHANGED <<heap, files, ops, eng, result, merged, historyPath,
                   console, render, proc>>

StepNext == StepCall \/ StepAdopt \/ StepDiscard

Spec == StepInit /\ [][StepNext]_vars

\* C2: a call of Step leaves the state it was given with the bindings it
\* had before the call.
C2_StepLeavesArgumentUnchanged ==
    last.called => heap[last.arg] = last.before

\* the bindings of the key in the state Step was given
KeyPresent == last.in.key.s \in DOMAIN last.before
Returned == heap[last.ret]

\* C3: for a Get with a string key, legal holds exactly when status is "ok"
\* and the output value matches the binding (nil for an absent key, the
\* stored string for a present one); the returned state has the bindings
\* of the input state.
C3_GetLegalIffMatches ==
    (last.called /\ last.in.type = Str("Get") /\ IsString(last.in.key)) =>
        /\ last.legal <=>
             /\ last.out.status = Str("ok")
             /\ \/ ~KeyPresent /\ last.out.value.t \in {"missing", "null"}
                \/ KeyPresent /\ last.out.value = Str(last.before[last.in.key.s])
        /\ Returned = last.before

C3_Witness ==
    /\ last.called /\ last.in.type = Str("Get") /\ last.in.key = Str("x")
    /\ last.out.status = Str("ok")
    /\ "x" \in DOMAIN last.before /\ last.before["x"] = ""
    /\ last.out.value = Null
    /\ ~last.legal

\* C4: a Put with a string key and a string value is legal whatever the
\* output, and the returned state is the input state with key bound to
\* value and every other binding unchanged.
C4_PutBindsKey ==
    (last.called /\ last.in.type = Str("Put") /\ IsString(last.in.key)
                 /\ IsString(last.in.value)) =>
        /\ last.legal
        /\ DOMAIN Returned = DOMAIN last.before \cup {last.in.key.s}
        /\ Returned[last.in.key.s] = last.in.value.s
        /\ \A k \in DOMAIN last.before \ {last.in.key.s} : Returned[k] = last.before[k]

C4_Witness ==
    /\ last.called /\ last.in.type = Str("Put") /\ last.in.key = Str("x")
    /\ last.in.value = Str("1") /\ last.out.status = Str("error")
    /\ DOMAIN last.before = {"x", "y"} /\ last.before["x"] = ""
    /\ last.legal /\ Returned["x"] = "1" /\ Returned["y"] = last.before["y"]

\* C5: a Delete with a string key is legal, and the returned state is the
\* input state without key and every other binding unchanged; with key
\* absent it has the bindings of the input state.
C5_DeleteRemovesKey ==
    (last.called /\ last.in.type = Str("Delete") /\ IsString(last.in.key)) =>
        /\ last.legal
        /\ DOMAIN Returned = DOMAIN last.before \ {last.in.key.s}
        /\ \A k \in DOMAIN Returned : Returned[k] = last.before[k]
        /\ ~KeyPresent => Returned = last.before

C5_Witness ==
    /\ last.called /\ last.in.type = Str("Delete") /\ last.in.key = Str("x")
    /\ DOMAIN last.before = {"x", "y"}
    /\ last.legal /\ DOMAIN Returned = {"y"}

\* the input or output has not the shape its declared kind expects
Malformed(in, out) ==
    \/ ~IsString(in.type)
    \/ in.type.s \notin {"Put", "Get", "Delete"}
    \/ ~IsString(in.key)
    \/ in.type.s = "Put" /\ ~IsString(in.value)
    \/ in.type.s = "Get" /\ ~IsString(out.status)

\* C6: for an operation of the wrong shape Step returns legal = false and
\* the state it was given, with its bindings unchanged.
C6_MalformedIsIllegal ==
    (last.called /\ Malformed(last.in, last.out)) =>
        /\ ~last.legal
        /\ last.ret = last.arg
        /\ Returned = last.before

C6_Witness ==
    /\ last.called /\ last.in.type = Str("Put") /\ last.in.key = Str("x")
    /\ last.in.value = Num("7")
    /\ DOMAIN last.before = {"x"}
    /\ ~last.legal /\ Returned = last.before

(***************************************************************************)
(* MergeHistories: load every file in the order given, concatenate, sort   *)
(* by call time, write the merged artifact next to the first file.         *)
(***************************************************************************)
\* json.MarshalIndent of an Operation
EncodeRecord(op) ==
    [client_id |-> JInt(op.ClientID), input |-> JObj(op.Input), call |-> JInt(op.Call),
     output |-> JObj(op.Output), return_time |-> JInt(op.ReturnTime)]

EncodeHistory(o) == JSONArray([i \in 1..Len(o) |-> EncodeRecord(o[i])])

\* the loads of MergeHistories' loop: the first error, or the concatenation
RECURSIVE LoadAll(_, _, _, _)
LoadAll(fs, paths, k, acc) ==
    IF k > Len(paths) THEN LoadResult("", acc)
    ELSE LET r == loadHistory(fs[paths[k]])
         IN  IF r.err # "" THEN LoadResult("error loading", <<>>)
             ELSE LoadAll(fs, paths, k + 1, acc \o r.ops)

\* sort.Slice with less = Call < Call, which sorts but "is not guaranteed to
\* be stable": every arrangement of the elements in non-decreasing Call.
SortSliceUnsorted(s) == {s}

SortSliceDescending(s) ==
    {[k \in 1..Len(s) |-> s[p[k]]] :
        p \in {q \in Orderings(1..Len(s)) :
                 \A i, j \in 1..Len(s) : i < j => s[q[i]].Call >= s[q[j]].Call}}

SortSlice(s) ==
    {[k \in 1..Len(s) |-> s[p[k]]] :
        p \in {q \in Orderings(1..Len(s)) :
                 \A i, j \in 1..Len(s) : i < j => s[q[i]].Call <= s[q[j]].Call}}

MergedFile == "merged-history.json"

MergeOutcome(err, path, o) == [err |-> err, path |-> path, ops |-> o]

MergeHistories(historyPaths) ==
    /\ pc = "merge"
    /\ historyPaths \notin DOMAIN merged
    /\ LET r == LoadAll(files, historyPaths, 1, <<>>)
       IN  IF r.err # ""
           THEN /\ merged' = [o \in DOMAIN merged \cup {historyPaths} |->
                                 IF o = historyPaths THEN MergeOutcome(r.err, "", <<>>)
                                 ELSE merged[o]]
                /\ files' = files
           ELSE \E allOps \in SortSlice(r.ops), written \in BOOLEAN :
                /\ merged' = [o \in DOMAIN merged \cup {historyPaths} |->
                                 IF o = historyPaths
                                 THEN IF written
                                      THEN MergeOutcome("", MergedFile, allOps)
                                      ELSE MergeOutcome("error writing merged history", "", <<>>)
                                 ELSE merged[o]]
                /\ files' = IF written
                            THEN [f \in DOMAIN files \cup {MergedFile} |->
                                     IF f = MergedFile THEN EncodeHistory(allOps)
                                     ELSE files[f]]
                            ELSE files
    /\ UNCHANGED <<heap, last, pc, ops, eng, result, historyPath,
                   console, render, proc>>

(***************************************************************************)
(* Two trace files merged in either order.                                 *)
(***************************************************************************)
MaxRecords == 3
MaxCall == 1

FileA == "a.json"
FileB == "b.json"
PathOrders == {<<FileA, FileB>>, <<FileB, FileA>>}

MergeRecords ==
    {[client_id |-> JInt(c),
      input |-> JObj([type |-> Str("Put"), key |-> Str("x"), value |-> Str("1")]),
      call |-> JInt(t), output |-> OkOut(Missing), return_time |-> JInt(t)] :
        c \in {1, 2}, t \in 0..MaxCall}

MergeContents ==
    {BadJSON} \cup {JSONArray(recs) : recs \in SeqsUpTo(MergeRecords, MaxRecords)}

MergeInit ==
    /\ heap = <<>>
    /\ last = NoCall
    /\ \E a \in MergeContents, b \in MergeContents :
           /\ Len(a.recs) + Len(b.recs) <= MaxRecords
           /\ files = [f \in {FileA, FileB} |-> IF f = FileA THEN a ELSE b]
    /\ pc = "merge"
    /\ ops = <<>>
    /\ eng = NoEngine
    /\ result = NoResult
    /\ merged = <<>>
    /\ console = <<>>
    /\ render = "none"
    /\ proc = NoProc
    /\ historyPath = ""

MergeNext == \E order \in PathOrders : MergeHistories(order)

SpecMerge == MergeInit /\ [][MergeNext]_vars

\* the concatenation of the loaded sequences, in the order of the paths
Concatenation(paths) == LoadAll(files, paths, 1, <<>>).ops

Count(s, x) == Cardinality({i \in 1..Len(s) : s[i] = x})
Range(s) == {s[i] : i \in 1..Len(s)}
SameRecords(s, t) ==
    /\ Len(s) = Len(t)
    /\ \A x \in Range(s) \cup Range(t) : Count(s, x) = Count(t, x)
CallOrdered(s) == \A i, j \in 1..Len(s) : i < j => s[i].Call <= s[j].Call
Succeeded(order) == order \in DOMAIN merged /\ merged[order].err = ""

\* C7: the sequence MergeHistories produces is a permutation of the
\* concatenation of the loaded sequences (its length the sum of theirs) and
\* is in non-decreasing order of call.
C7_MergeIsSortedPermutation ==
    \A order \in PathOrders :
        Succeeded(order) =>
            /\ SameRecords(merged[order].ops, Concatenation(order))
            /\ Len(merged[order].ops) = Len(files[FileA].recs) + Len(files[FileB].recs)
            /\ CallOrdered(merged[order].ops)

C7_Witness ==
    /\ Succeeded(<<FileA, FileB>>)
    /\ Len(files[FileA].recs) = 2 /\ Len(files[FileB].recs) = 1
    /\ files[FileA].recs[1].call.n > files[FileA].recs[2].call.n
    /\ files[FileB].recs[1].call.n = 0
    /\ merged[<<FileA, FileB>>].ops # Concatenation(<<FileA, FileB>>)

\* the concatenation sorted by call with ties in their input order
StableSort(s) ==
    LET p == CHOOSE q \in Orderings(1..Len(s)) :
                 \A i, j \in 1..Len(s) : i < j =>
                     \/ s[q[i]].Call < s[q[j]].Call
                     \/ s[q[i]].Call = s[q[j]].Call /\ q[i] < q[j]
    IN  [k \in 1..Len(s) |-> s[p[k]]]

\* C8: records with equal call timestamps keep, in the merged sequence, the
\* relative order they have in the concatenation of the input files.
C8_MergeIsStable ==
    \A order \in PathOrders :
        Succeeded(order) => merged[order].ops = StableSort(Concatenation(order))

\* C9: merging [A, B] and merging [B, A] yield the same record sequence.
C9_MergeOrderIndependent ==
    (Succeeded(<<FileA, FileB>>) /\ Succeeded(<<FileB, FileA>>)) =>
        merged[<<FileA, FileB>>].ops = merged[<<FileB, FileA>>].ops

Calls(s) == [i \in 1..Len(s) |-> s[i].Call]
TiesAreIdentical(s) == \A i, j \in 1..Len(s) : s[i].Call = s[j].Call => s[i] = s[j]

\* C9 as amended: merging [A, B] and merging [B, A] yield the same records
\* with the same multiplicities and the same sequence of call timestamps;
\* the record sequences are identical when no two different records share
\* a call timestamp.
C9_MergeOrderIndependentUpToTies ==
    (Succeeded(<<FileA, FileB>>) /\ Succeeded(<<FileB, FileA>>)) =>
        LET ab == merged[<<FileA, FileB>>].ops
            ba == merged[<<FileB, FileA>>].ops
        IN  /\ SameRecords(ab, ba)
            /\ Calls(ab) = Calls(ba)
            /\ TiesAreIdentical(ab) => ab = ba

C9_Witness ==
    /\ Succeeded(<<FileA, FileB>>) /\ Succeeded(<<FileB, FileA>>)
    /\ Len(files[FileA].recs) = 2 /\ Len(files[FileB].recs) = 1
    /\ files[FileA].recs[1].call.n = 1 /\ files[FileA].recs[2].call.n = 0
    /\ files[FileB].recs[1].call.n = 0
    /\ files[FileB].recs[1] # files[FileA].recs[2]
    /\ Calls(merged[<<FileA, FileB>>].ops) = <<0, 0, 1>>

(***************************************************************************)
(* ProcessHistory on any trace file: unreadable, not JSON, or an array of  *)
(* records some of which lack members or hold members of another type.     *)
(***************************************************************************)
LoadInputs ==
    {JObj([type |-> Str("Put"), key |-> Str("x"), value |-> Str("1")]),
     JObj([type |-> Str("Get"), key |-> Str("x"), value |-> Missing]),
     JObj([type |-> Str("Get"), key |-> Missing, value |-> Missing]),
     JObj([type |-> Str("Get"), key |-> Num("7"), value |-> Missing]),
     JNotObj(NilMap), JNoObj(NilMap)}

LoadOutputs == {OkOut(Null), OkOut(Str("1")), JNoObj(NilOut)}

LoadRecords ==
    {[client_id |-> JInt(1), input |-> i, call |-> c, output |-> o,
      return_time |-> JInt(1)] :
        i \in LoadInputs, o \in LoadOutputs, c \in {JInt(0), JBadInt, JNoInt}}

LoadContents ==
    {Unreadable, BadJSON}
    \cup {JSONArray(recs) : recs \in SeqsUpTo(LoadRecords, MaxOps)}

LoadInit ==
    /\ heap = <<>>
    /\ last = NoCall
    /\ \E c \in LoadContents : files = [p \in {HistoryFile} |-> c]
    /\ pc = "process"
    /\ ops = <<>>
    /\ eng = NoEngine
    /\ result = NoResult
    /\ merged = <<>>
    /\ console = <<>>
    /\ render = "none"
    /\ proc = NoProc
    /\ historyPath = HistoryFile

SpecLoad == LoadInit /\ [][ProcessNext]_vars

\* a Trace Record as the trace file format describes it
RecordWellFormed(r) ==
    /\ r.client_id.t = "int" /\ r.call.t = "int" /\ r.return_time.t = "int"
    /\ r.input.t = "object"
    /\ r.input.m.type \in {Str("Put"), Str("Get"), Str("Delete")}
    /\ IsString(r.input.m.key)
    /\ r.input.m.type = Str("Put") => IsString(r.input.m.value)
    /\ r.output.t = "object"
    /\ r.output.m.status.t \in {"string", "missing"}
    /\ r.output.m.value.t \in {"string", "null", "missing"}

ContentWellFormed(c) ==
    /\ c.kind = "array"
    /\ \A i \in 1..Len(c.recs) : RecordWellFormed(c.recs[i])

\* a record that lacks the key member under input and is well formed otherwise
LacksKey(r) ==
    /\ r.input.t = "object" /\ r.input.m.key = Missing
    /\ RecordWellFormed([r EXCEPT !.input.m.key = Str("x")])

\* C10: a trace file in which one record lacks the key member under input
\* (and so is no well-formed sequence of Trace Records) fails at load: the
\* engine is never started on it, the model is never stepped and the result
\* carries no engine verdict.
C10_MalformedTraceFailsAtLoad ==
    (/\ pc # "process"
     /\ files[historyPath].kind = "array"
     /\ \E i \in 1..Len(files[historyPath].recs) : LacksKey(files[historyPath].recs[i])
     /\ ~ContentWellFormed(files[historyPath])) =>
        /\ pc = "done"
        /\ ~last.called
        /\ result.Result = "" /\ ~result.IsLinearizable

(***************************************************************************)
(* main: merge when several paths are given, process the history, print    *)
(* the summary, serve or name the visualization, exit.                     *)
(***************************************************************************)
Exit(code) == [proc EXCEPT !.exitCode = code]

\* no path is given
MainUsage ==
    /\ pc = "main"
    /\ Len(proc.args) < 1
    /\ console' = Append(console, "Usage")
    /\ proc' = Exit(1)
    /\ pc' = "exited"
    /\ UNCHANGED <<heap, last, files, ops, eng, result, merged, historyPath, render>>

\* one path is given: it is the history
MainSingle ==
    /\ pc = "main"
    /\ Len(proc.args) = 1
    /\ historyPath' = proc.args[1]
    /\ pc' = "process"
    /\ UNCHANGED <<heap, last, files, ops, eng, result, merged, console, render, proc>>

\* several paths are given: MergeHistories is called with them
MainMerge ==
    /\ pc = "main"
    /\ Len(proc.args) > 1
    /\ pc' = "merge"
    /\ UNCHANGED <<heap, last, files, ops, eng, result, merged, historyPath,
                   console, render, proc>>

\* MergeHistories has returned
MainMerged ==
    /\ pc = "merge"
    /\ proc.args \in DOMAIN merged
    /\ IF merged[proc.args].err # ""
       THEN /\ console' = Append(console, "Error merging histories")
            /\ proc' = Exit(1)
            /\ pc' = "exited"
            /\ UNCHANGED historyPath
       ELSE /\ console' = Append(console, "Merged histories")
            /\ historyPath' = merged[proc.args].path
            /\ pc' = "process"
            /\ UNCHANGED proc
    /\ UNCHANGED <<heap, last, files, ops, eng, result, merged, render>>

\* the summary line of main
SummaryLine(r) ==
    (IF r.IsLinearizable THEN "Summary: passed" ELSE "Summary: failed")
    \o (IF ~r.IsLinearizable /\ r.MaxPartialLen > 0 THEN " (max partial)" ELSE "")

\* an exit status that fails only on a confirmed violation
ExitCodeOfIllegalOnly(r) == IF r.Result = "Illegal" THEN 1 ELSE 0

ExitCodeOf(r) == IF ~r.IsLinearizable THEN 1 ELSE 0

\* ProcessHistory has returned: the summary, then the server or the exit
MainSummary ==
    /\ pc = "done"
    /\ IF proc.serve
       THEN /\ console' = console \o <<"Summary", SummaryLine(result), "Starting web server">>
            /\ pc' = "serving"
            /\ UNCHANGED proc
       ELSE /\ console' = console \o <<"Summary", SummaryLine(result), "Open in your browser">>
            /\ proc' = Exit(ExitCodeOf(result))
            /\ pc' = "exited"
    /\ UNCHANGED <<heap, last, files, ops, eng, result, merged, historyPath, render>>

\* http.ListenAndServe returns with an error
MainServerStops ==
    /\ pc = "serving"
    /\ console' = Append(console, "Error starting server")
    /\ proc' = Exit(ExitCodeOf(result))
    /\ pc' = "exited"
    /\ UNCHANGED <<heap, last, files, ops, eng, result, merged, historyPath, render>>

MainNext ==
    \/ MainUsage
    \/ MainSingle
    \/ MainMerge
    \/ MergeHistories(proc.args)
    \/ MainMerged
    \/ ProcessHistoryLoad
    \/ EngineStep
    \/ EngineBacktrack
    \/ EngineFail
    \/ EngineSucceed
    \/ EngineTimeout
    \/ ProcessHistoryReport
    \/ MainSummary
    \/ MainServerStops

MainRecords ==
    {[client_id |-> JInt(1),
      input |-> JObj([type |-> Str("Put"), key |-> Str("x"), value |-> Str("1")]),
      call |-> JInt(0), output |-> OkOut(Missing), return_time |-> JInt(0)],
     [client_id |-> JInt(2),
      input |-> JObj([type |-> Str("Get"), key |-> Str("x"), value |-> Missing]),
      call |-> JInt(1), output |-> OkOut(Null), return_time |-> JInt(1)],
     [client_id |-> JInt(3),
      input |-> JObj([type |-> Str("Put"), key |-> Str("y"), value |-> Str("1")]),
      call |-> JInt(0), output |-> OkOut(Missing), return_time |-> JInt(1)],
     [client_id |-> JInt(4), input |-> JNotObj(NilMap),
      call |-> JInt(0), output |-> OkOut(Missing), return_time |-> JInt(0)]}

MainContents ==
    {Unreadable} \cup {JSONArray(recs) : recs \in SeqsUpTo(MainRecords, MaxOps)}

MainInit ==
    /\ heap = <<>>
    /\ last = NoCall
    /\ pc = "main"
    /\ ops = <<>>
    /\ eng = NoEngine
    /\ result = NoResult
    /\ merged = <<>>
    /\ historyPath = ""
    /\ console = <<>>
    /\ render = "none"
    /\ \E serve \in BOOLEAN :
        \/ /\ proc = [args |-> <<>>, serve |-> serve, exitCode |-> -1]
           /\ files = <<>>
        \/ /\ proc = [args |-> <<HistoryFile>>, serve |-> serve, exitCode |-> -1]
           /\ \E c \in MainContents : files = [f \in {HistoryFile} |-> c]
        \/ /\ proc = [args |-> <<FileA, FileB>>, serve |-> serve, exitCode |-> -1]
           /\ \E a \in MainContents, b \in MainContents :
                /\ Len(a.recs) + Len(b.recs) <= MaxRecords
                /\ files = [f \in {FileA, FileB} |-> IF f = FileA THEN a ELSE b]

SpecMain == MainInit /\ [][MainNext]_vars

\* loading one of the files named on the command line fails
SomeLoadFails ==
    \E i \in 1..Len(proc.args) : loadHistory(files[proc.args[i]]).err # ""

Printed(line) == \E k \in 1..Len(console) : console[k] = line
SummaryPrinted == Printed("Summary: passed") \/ Printed("Summary: failed")
                  \/ Printed("Summary: failed (max partial)")

\* C11: when loading an input file fails, whether one path or several are
\* given, no merged artifact is written, the engine is not invoked, no
\* summary line is printed for the history, and the process exits non-zero.
C11_LoadFailureAbortsRun ==
    SomeLoadFails =>
        /\ MergedFile \notin DOMAIN files
        /\ eng = NoEngine
        /\ ~SummaryPrinted
        /\ pc = "exited" => proc.exitCode = 1

(***************************************************************************)
(* partitionByKey inside ProcessHistory, on histories whose keys are a     *)
(* string, the string "__unknown__", missing, or not a string.             *)
(***************************************************************************)
PartitionKeyVals == {Str("x"), Str(UnknownKey), Missing, Num("7")}

PartitionIO ==
    {[input |-> JObj([type |-> Str("Put"), key |-> k, value |-> Str("1")]),
      output |-> OkOut(Missing)] : k \in PartitionKeyVals \ {Num("7")}}
    \cup {[input |-> JObj([type |-> Str("Get"), key |-> k, value |-> Missing]),
           output |-> OkOut(Null)] : k \in PartitionKeyVals}
    \cup {[input |-> JObj([type |-> Str("Get"), key |-> k, value |-> Missing]),
           output |-> OkOut(Str("1"))] : k \in {Str("x"), Str(UnknownKey)}}

PartitionRecords ==
    {[client_id |-> JInt(1), input |-> io.input, call |-> JInt(c),
      output |-> io.output, return_time |-> JInt(r)] :
        io \in PartitionIO, c \in 0..1, r \in 0..1}

PartitionInit ==
    /\ heap = <<>>
    /\ last = NoCall
    /\ \E recs \in SeqsUpTo({r \in PartitionRecords : r.call.n <= r.return_time.n}, MaxOps) :
           files = [p \in {HistoryFile} |-> JSONArray(recs)]
    /\ pc = "process"
    /\ ops = <<>>
    /\ eng = NoEngine
    /\ result = NoResult
    /\ merged = <<>>
    /\ console = <<>>
    /\ render = "none"
    /\ proc = NoProc
    /\ historyPath = HistoryFile

SpecPartition == PartitionInit /\ [][ProcessNext]_vars

\* the history the engine was given
History == convertToPorcupineOperations(ops)

\* the partitions holding operation i, with the positions it has in them
Places(ix, i) ==
    {pj \in UNION {{<<p, j>> : j \in 1..Len(ix[p])} : p \in 1..Len(ix)} :
        ix[pj[1]][pj[2]] = i}

Flatten(parts) ==
    LET RECURSIVE Upto(_)
        Upto(p) == IF p = 0 THEN <<>> ELSE Upto(p - 1) \o parts[p]
    IN  Upto(Len(parts))

\* C12: every operation of the history is in exactly one partition that
\* partitionByKey returns, at exactly one position, and the partitions the
\* engine receives hold the operations of the history with the same
\* multiplicities, operations with a missing or non-string key included.
C12_PartitionIsDisjointCover ==
    pc = "check" =>
        /\ \A ix \in partitionIndices(History) :
              \A i \in 1..Len(History) : Cardinality(Places(ix, i)) = 1
        /\ SameRecords(Flatten(eng.parts), History)

C12_Witness ==
    /\ pc = "check"
    /\ Len(eng.parts) = 2
    /\ \E i, j \in 1..Len(History) :
          /\ ~IsString(History[i].Input.key)
          /\ IsString(History[j].Input.key)

SamePartition(ix, i, j) ==
    \E p \in 1..Len(ix) : {i, j} \subseteq Range(ix[p])

\* C13: two operations with string keys share a partition exactly when
\* their keys are equal, and the operations whose key is not a string share
\* one partition that holds no operation with a string key.
C13_PartitionsCorrespondToKeys ==
    pc = "check" =>
        \A ix \in partitionIndices(History) :
            \A i, j \in 1..Len(History) :
                LET ki == History[i].Input.key
                    kj == History[j].Input.key
                IN  /\ (IsString(ki) /\ IsString(kj)) =>
                           (SamePartition(ix, i, j) <=> ki.s = kj.s)
                    /\ (~IsString(ki) /\ ~IsString(kj)) => SamePartition(ix, i, j)
                    /\ (~IsString(ki) /\ IsString(kj)) => ~SamePartition(ix, i, j)

(***************************************************************************)
(* Linearizability decided by the model itself: some total order that      *)
(* respects real-time precedence is stepped, from the state Init returns,  *)
(* with every step legal.                                                  *)
(***************************************************************************)
RECURSIVE LegalByStep(_, _, _, _, _)
LegalByStep(h, order, k, hp, st) ==
    IF k > Len(order) THEN TRUE
    ELSE LET r == Step(hp, st, h[order[k]].Input, h[order[k]].Output)
         IN  r.legal /\ LegalByStep(h, order, k + 1, r.heap, r.state)

PrecedenceKept(h, order) ==
    \A i, j \in 1..Len(order) :
        h[order[i]].Return < h[order[j]].Call => i < j

LinearizableByStep(h) ==
    \E order \in Orderings(1..Len(h)) :
        PrecedenceKept(h, order) /\ LegalByStep(h, order, 1, <<EmptyMap>>, 1)

WellFormedOp(op) ==
    /\ IsString(op.Input.type) /\ op.Input.type.s \in {"Put", "Get", "Delete"}
    /\ IsString(op.Input.key)
    /\ op.Input.type.s = "Put" => IsString(op.Input.value)
    /\ op.Call <= op.Return

WellFormedHistory(h) == \A i \in 1..Len(h) : WellFormedOp(h[i])

EngineReturned == pc \in {"done", "serving", "exited"} /\ eng # NoEngine

C16_UnknownIsNotReportedAsViolation ==
    (EngineReturned /\ CheckResult(eng) = "Unknown") =>
        /\ result.Result = "Unknown"
        /\ ~Printed("History is NOT linearizable")
        /\ ~Printed("Summary: failed")
        /\ ~Printed("Summary: failed (max partial)")

\* C17: when the visualization file cannot be created or the rendering
\* fails, ProcessHistory returns the verdict, the number of operations and
\* the max partial length obtained from the engine.
C17_RenderFailureKeepsResult ==
    (EngineReturned /\ render \in {"create failed", "render failed"}) =>
        /\ result.Result = CheckResult(eng)
        /\ result.IsLinearizable <=> CheckResult(eng) = "Ok"
        /\ result.TotalOps = Len(ops)
        /\ result.MaxPartialLen = calculateMaxPartialLength(PartialLinearizations(eng))

C17_Witness ==
    /\ pc = "exited"
    /\ render = "create failed"
    /\ result.IsLinearizable
    /\ result.TotalOps = 2
    /\ result.MaxPartialLen > 0

\* C18: the max partial length reported is the greatest length among the
\* partial linearizations of all partitions, 0 when there is none, and the
\* verdict is linearizable exactly when the engine's result is Ok, whatever
\* that length.
C18_MaxPartialLengthIsMaximum ==
    EngineReturned =>
        LET info == PartialLinearizations(eng)
        IN  /\ \A p \in 1..Len(info) : \A l \in info[p] : Len(l) <= result.MaxPartialLen
            /\ \/ result.MaxPartialLen = 0
               \/ \E p \in 1..Len(info) : \E l \in info[p] : Len(l) = result.MaxPartialLen
            /\ result.IsLinearizable <=> CheckResult(eng) = "Ok"

C18_Witness ==
    /\ pc = "done"
    /\ CheckResult(eng) = "Illegal"
    /\ Len(eng.parts) = 2
    /\ result.MaxPartialLen = 1
    /\ ~result.IsLinearizable

\* the file ProcessHistory is given loads and holds no operation
LoadsEmpty ==
    /\ historyPath \in DOMAIN files
    /\ loadHistory(files[historyPath]).err = ""
    /\ Len(loadHistory(files[historyPath]).ops) = 0

\* C20: a history file that loads with zero operations is reported
\* linearizable with 0 operations, the engine is not invoked, no
\* visualization is produced, and the process exits with 0.
C20_EmptyHistoryIsLinearizable ==
    (pc \in {"done", "serving", "exited"} /\ LoadsEmpty) =>
        /\ result.IsLinearizable
        /\ result.TotalOps = 0
        /\ eng = NoEngine
        /\ render = "none"
        /\ ~Printed("Generated visualization")
        /\ pc = "exited" => proc.exitCode = 0

C20_Witness ==
    /\ pc = "exited"
    /\ LoadsEmpty
    /\ Printed("No operations found in history")
    /\ proc.exitCode = 0

(***************************************************************************)
(* The model stepped along a sequence of Put and Delete operations on one  *)
(* key, in call order, from the state Init returns; each step continues    *)
(* from the state the step before returned.                                *)
(***************************************************************************)
MaxSeq == 4

SeqInputs(k) ==
    {[type |-> Str("Put"), key |-> Str(k), value |-> Str(v)] : v \in Vals}
    \cup {[type |-> Str("Delete"), key |-> Str(k), value |-> Missing]}

SeqInit ==
    /\ heap = <<EmptyMap>>
    /\ last = NoCall
    /\ files = <<>>
    /\ pc = "seq"
    /\ ops = <<>>
    /\ eng = [NoEngine EXCEPT !.state = 1]
    /\ result = NoResult
    /\ merged = <<>>
    /\ historyPath = ""
    /\ console = <<>>
    /\ render = "none"
    /\ proc = NoProc

SeqStep ==
    /\ pc = "seq"
    /\ Len(ops) < MaxSeq
    /\ \E k \in Keys :
        /\ \A i \in 1..Len(ops) : ops[i].Input.key.s = k
        /\ \E in \in SeqInputs(k) :
            LET out == [status |-> Str("ok"), value |-> Missing]
                r == Step(heap, eng.state, in, out)
            IN  /\ heap' = r.heap
                /\ last' = CallRecord(heap, eng.state, in, out, r)
                /\ eng' = [eng EXCEPT !.state = r.state, !.ok = @ /\ r.legal]
                /\ ops' = Append(ops, [ClientID |-> 1, Input |-> in, Call |-> Len(ops),
                                       Output |-> out, ReturnTime |-> Len(ops)])
    /\ UNCHANGED <<files, pc, result, merged, historyPath, console, render, proc>>

SpecSeq == SeqInit /\ [][SeqStep]_vars

\* C19: along every sequence of well-formed Put and Delete operations on one
\* key, stepped in call order from the empty state, every step is legal, and
\* after each step the key is bound to the value of the last operation when
\* that was a Put and is absent when that was a Delete.
C19_PutDeleteSequenceIsLegal ==
    (pc = "seq" /\ ops # <<>>) =>
        LET op == ops[Len(ops)].Input
            st == heap[eng.state]
        IN  /\ last.legal
            /\ eng.ok
            /\ IF op.type.s = "Put"
               THEN op.key.s \in DOMAIN st /\ st[op.key.s] = op.value.s
               ELSE op.key.s \notin DOMAIN st

C19_Witness ==
    /\ pc = "seq"
    /\ Len(ops) = 4
    /\ ops[1].Input.type.s = "Delete"
    /\ ops[2].Input.type.s = "Put" /\ ops[2].Input.value.s = "1"
    /\ ops[3].Input.type.s = "Put" /\ ops[3].Input.value.s = ""
    /\ ops[4].Input.type.s = "Delete"
    /\ eng.ok
    /\ heap[eng.state] = EmptyMap

====
